---- MODULE Spec2Model ----
(***************************************************************************)
(* Model of jobs_scraper.py: scrape_all (query loop, per-platform dedup),  *)
(* the main block (keyword filter and global dedup), save_csv and          *)
(* send_email.                                                             *)
(*                                                                         *)
(* Python strings are sequences of one-character strings, so that          *)
(* str.split, str.lower, str.replace, the "in" substring test and slicing  *)
(* are computed rather than assumed.                                       *)
(***************************************************************************)
EXTENDS Integers, Sequences, FiniteSets, TLC

-----------------------------------------------------------------------------
\* Bounds of the model.

\* Value the model gives MAX_PER_PLATFORM (20 in the source), scaled so that
\* the cap is reached by pages of at most MaxPageLen cards.
MaxPerPlatformBound == 2

\* Longest page (number of result cards in one rendered page) an upstream returns.
MaxPageLen == 3

-----------------------------------------------------------------------------
\* CONFIG (lines 20-24)

KW_SoftwareDeveloper ==
    <<"S", "o", "f", "t", "w", "a", "r", "e", " ", "D", "e", "v", "e", "l", "o", "p", "e", "r">>

KW_UIUXDesigner ==
    <<"U", "I", "/", "U", "X", " ", "D", "e", "s", "i", "g", "n", "e", "r">>

KW_FrontendDeveloper ==
    <<"F", "r", "o", "n", "t", "e", "n", "d", " ", "D", "e", "v", "e", "l", "o", "p", "e", "r">>

KW_SoftwareEngineer ==
    <<"S", "o", "f", "t", "w", "a", "r", "e", " ", "E", "n", "g", "i", "n", "e", "e", "r">>
KEYWORDS ==
    <<KW_SoftwareDeveloper, KW_UIUXDesigner, KW_FrontendDeveloper, KW_SoftwareEngineer>>

PLATFORMS ==
    <<"naukri", "internshala", "indeed", "google", "linkedin">>

MAX_PER_PLATFORM ==
    MaxPerPlatformBound

-----------------------------------------------------------------------------
\* Python built-ins used by the program, on character sequences.

\* A markup node (or attribute, or environment variable) that is absent:
\* select_one(...) returning None, has_attr(...) false, os.environ.get(...) None.
None ==
    <<"<None>">>

Min(a, b) ==
    IF a <= b THEN a ELSE b

\* s[:n]
Take(s, n) ==
    SubSeq(s, 1, Min(n, Len(s)))

\* str.split() with no argument: the maximal runs of non-whitespace characters.
RECURSIVE SplitWs(_, _, _)
SplitWs(s, cur, acc) ==
    IF s = <<>>
    THEN IF cur = <<>> THEN acc ELSE Append(acc, cur)
    ELSE IF Head(s) = " "
         THEN SplitWs(Tail(s), <<>>, IF cur = <<>> THEN acc ELSE Append(acc, cur))
         ELSE SplitWs(Tail(s), Append(cur, Head(s)), acc)

\* sep.join(parts)
RECURSIVE Join(_, _)
Join(sep, parts) ==
    IF parts = <<>> THEN <<>>
    ELSE IF Len(parts) = 1 THEN parts[1]
    ELSE parts[1] \o sep \o Join(sep, Tail(parts))

\* s.replace(c, to) for a one-character c
RECURSIVE Replace(_, _, _)
Replace(s, c, to) ==
    IF s = <<>> THEN <<>>
    ELSE (IF Head(s) = c THEN to ELSE <<Head(s)>>) \o Replace(Tail(s), c, to)

UPPER ==
    <<"A", "B", "C", "D", "E", "F", "G", "H", "I", "J", "K", "L", "M",
      "N", "O", "P", "Q", "R", "S", "T", "U", "V", "W", "X", "Y", "Z">>

LOWER ==
    <<"a", "b", "c", "d", "e", "f", "g", "h", "i", "j", "k", "l", "m",
      "n", "o", "p", "q", "r", "s", "t", "u", "v", "w", "x", "y", "z">>

LowerChar(c) ==
    IF \E i \in 1..Len(UPPER) : UPPER[i] = c
    THEN LOWER[CHOOSE i \in 1..Len(UPPER) : UPPER[i] = c]
    ELSE c

\* s.lower()
RECURSIVE lower(_)
lower(s) ==
    IF s = <<>> THEN <<>> ELSE <<LowerChar(Head(s))>> \o lower(Tail(s))

\* s.startswith(p)
StartsWith(s, p) ==
    Len(p) <= Len(s) /\ SubSeq(s, 1, Len(p)) = p

\* needle in hay
Contains(hay, needle) ==
    \E i \in 0..(Len(hay) - Len(needle)) : SubSeq(hay, i + 1, i + Len(needle)) = needle

DIGITS ==
    <<"0", "1", "2", "3", "4", "5", "6", "7", "8", "9">>

IsDigit(c) ==
    \E i \in 1..Len(DIGITS) : DIGITS[i] = c

DigitValue(c) ==
    (CHOOSE i \in 1..Len(DIGITS) : DIGITS[i] = c) - 1

RECURSIVE DecimalValue(_, _)
DecimalValue(s, acc) ==
    IF s = <<>> THEN acc ELSE DecimalValue(Tail(s), acc * 10 + DigitValue(Head(s)))

\* int(s): ok and the number s spells, or not ok (ValueError) when s is not a
\* decimal numeral, the empty string included.
int(s) ==
    IF s # <<>> /\ \A i \in 1..Len(s) : IsDigit(s[i])
    THEN [ok |-> TRUE, value |-> DecimalValue(s, 0)]
    ELSE [ok |-> FALSE, value |-> 0]

-----------------------------------------------------------------------------
\* HELPERS (lines 27-45)

normalize_text(s) ==
    IF s = <<>> THEN <<>> ELSE Join(<<" ">>, SplitWs(s, <<>>, <<>>))

URL_naukri_prefix ==
    <<"h", "t", "t", "p", "s", ":", "/", "/", "w", "w", "w", ".", "n", "a", "u", "k", "r", "i",
      ".", "c", "o", "m", "/">>

URL_naukri_suffix ==
    <<"-", "j", "o", "b", "s">>

URL_internshala_prefix ==
    <<"h", "t", "t", "p", "s", ":", "/", "/", "i", "n", "t", "e", "r", "n", "s", "h", "a", "l",
      "a", ".", "c", "o", "m", "/", "i", "n", "t", "e", "r", "n", "s", "h", "i", "p", "s", "/">>

URL_internshala_suffix ==
    <<"-", "i", "n", "t", "e", "r", "n", "s", "h", "i", "p">>

URL_indeed_prefix ==
    <<"h", "t", "t", "p", "s", ":", "/", "/", "w", "w", "w", ".", "i", "n", "d", "e", "e", "d",
      ".", "c", "o", ".", "i", "n", "/", "j", "o", "b", "s", "?", "q", "=">>

URL_indeed_suffix ==
    <<"&", "l", "=">>

URL_linkedin_prefix ==
    <<"h", "t", "t", "p", "s", ":", "/", "/", "w", "w", "w", ".", "l", "i", "n", "k", "e", "d",
      "i", "n", ".", "c", "o", "m", "/", "j", "o", "b", "s", "/", "s", "e", "a", "r", "c", "h",
      "?", "k", "e", "y", "w", "o", "r", "d", "s", "=">>

URL_google_prefix ==
    <<"h", "t", "t", "p", "s", ":", "/", "/", "w", "w", "w", ".", "g", "o", "o", "g", "l", "e",
      ".", "c", "o", "m", "/", "s", "e", "a", "r", "c", "h", "?", "q", "=">>

URL_google_suffix ==
    <<"+", "j", "o", "b", "s">>

PercentTwenty ==
    <<"%", "2", "0">>
\* The URL build_queries appends for one keyword; <<>> stands for "nothing
\* appended" (a platform no branch names).
QueryUrl(kw, platform) ==
    CASE platform = "naukri" ->
            URL_naukri_prefix \o Replace(kw, " ", <<"-">>) \o URL_naukri_suffix
      [] platform = "internshala" ->
            URL_internshala_prefix \o Replace(kw, " ", <<"-">>) \o URL_internshala_suffix
      [] platform = "indeed" ->
            URL_indeed_prefix \o Replace(kw, " ", <<"+">>) \o URL_indeed_suffix
      [] platform = "linkedin" ->
            URL_linkedin_prefix \o Replace(kw, " ", PercentTwenty)
      [] platform = "google" ->
            URL_google_prefix \o Replace(kw, " ", <<"+">>) \o URL_google_suffix
      [] OTHER -> <<>>

\* build_queries with "return qs" indented into the loop body: the loop ends
\* after the first keyword.
build_queries_return_in_loop(keywords, platform) ==
    SelectSeq([i \in 1..Min(1, Len(keywords)) |-> QueryUrl(keywords[i], platform)],
              LAMBDA u : u # <<>>)

build_queries(keywords, platform) ==
    SelectSeq([i \in 1..Len(keywords) |-> QueryUrl(keywords[i], platform)],
              LAMBDA u : u # <<>>)

-----------------------------------------------------------------------------
\* Parsers (lines 47-113).  A page is the sequence of cards its selector
\* matches; a card gives, for each node or attribute a parser looks up, its
\* text or None.

\* card.select_one(sel).get_text() if card.select_one(sel) else ""
TextOf(node) ==
    IF node = None THEN <<>> ELSE node

Job(title, company, location, snippet, link, source) ==
    [title |-> title, company |-> company, location |-> location,
     snippet |-> snippet, link |-> link, source |-> source]

naukri_card(card) ==
    Job(normalize_text(TextOf(card.title)),
        normalize_text(TextOf(card.company)),
        normalize_text(TextOf(card.location)),
        normalize_text(TextOf(card.snippet)),
        TextOf(card.href),
        "Naukri")

parse_naukri(html) ==
    LET cards == Take(html, MAX_PER_PLATFORM)
    IN  [i \in 1..Len(cards) |-> naukri_card(cards[i])]

INTERNSHALA_BASE ==
    <<"h", "t", "t", "p", "s", ":", "/", "/", "i", "n", "t", "e", "r", "n", "s", "h", "a", "l",
      "a", ".", "c", "o", "m">>
internshala_card(card) ==
    Job(normalize_text(TextOf(card.title)),
        normalize_text(TextOf(card.company)),
        normalize_text(TextOf(card.location)),
        <<>>,
        IF card.title # None /\ card.href # None
        THEN INTERNSHALA_BASE \o card.href
        ELSE <<>>,
        "Internshala")

parse_internshala(html) ==
    LET cards == Take(html, MAX_PER_PLATFORM)
    IN  [i \in 1..Len(cards) |-> internshala_card(cards[i])]

INDEED_BASE ==
    <<"h", "t", "t", "p", "s", ":", "/", "/", "w", "w", "w", ".", "i", "n", "d", "e", "e", "d",
      ".", "c", "o", ".", "i", "n">>

HTTP ==
    <<"h", "t", "t", "p">>
indeed_card(card) ==
    Job(normalize_text(TextOf(card.title)),
        normalize_text(TextOf(card.company)),
        normalize_text(TextOf(card.location)),
        normalize_text(TextOf(card.snippet)),
        IF card.href # None /\ StartsWith(card.href, HTTP)
        THEN card.href
        ELSE IF card.href # None THEN INDEED_BASE \o card.href ELSE <<>>,
        "Indeed")

parse_indeed(html) ==
    LET cards == Take(html, MAX_PER_PLATFORM)
    IN  [i \in 1..Len(cards) |-> indeed_card(cards[i])]

Ellipsis ==
    <<".", ".", ".">>

W_company ==
    <<"c", "o", "m", "p", "a", "n", "y">>

W_hiring ==
    <<"h", "i", "r", "i", "n", "g">>

W_jobs ==
    <<"j", "o", "b", "s">>

W_posted ==
    <<"p", "o", "s", "t", "e", "d">>
\* The loop of parse_google over the divs left to visit.
RECURSIVE google_loop(_, _, _)
google_loop(divs, found, seen_texts) ==
    IF divs = <<>> THEN found
    ELSE LET text == Head(divs).text
             low  == lower(text)
             hit  == \/ Contains(low, W_company)
                     \/ Contains(low, W_hiring)
                     \/ Contains(low, W_jobs)
                     \/ Contains(low, W_posted)
             found2 == IF hit
                         THEN Append(found,
                                     Job(Take(text, 80) \o Ellipsis, <<>>, <<>>,
                                         text, <<>>, "GoogleSearch"))
                         ELSE found
             seen2 == IF hit THEN seen_texts + 1 ELSE seen_texts
         IN  IF Len(text) < 30
             THEN google_loop(Tail(divs), found, seen_texts)
             ELSE IF seen2 >= MAX_PER_PLATFORM
                  THEN found2
                  ELSE google_loop(Tail(divs), found2, seen2)

parse_google(html) ==
    google_loop(Take(html, MAX_PER_PLATFORM * 4), <<>>, 0)

linkedin_card(card) ==
    Job(normalize_text(TextOf(card.title)),
        normalize_text(TextOf(card.company)),
        normalize_text(TextOf(card.location)),
        <<>>,
        TextOf(card.href),
        "LinkedIn")

parse_linkedin(html) ==
    LET cards == Take(html, MAX_PER_PLATFORM)
    IN  [i \in 1..Len(cards) |-> linkedin_card(cards[i])]

\* The if/elif chain of scrape_all that picks the parser (lines 130-139).
ParsePage(platform, html) ==
    CASE platform = "naukri"      -> parse_naukri(html)
      [] platform = "internshala" -> parse_internshala(html)
      [] platform = "indeed"      -> parse_indeed(html)
      [] platform = "google"      -> parse_google(html)
      [] platform = "linkedin"    -> parse_linkedin(html)
      [] OTHER                    -> <<>>

-----------------------------------------------------------------------------
\* Pages the upstreams may return.

T_SoftwareDeveloperRaw ==
    <<" ", " ", "S", "o", "f", "t", "w", "a", "r", "e", " ", " ", " ", "D", "e", "v", "e", "l",
      "o", "p", "e", "r", " ">>

T_Acme ==
    <<"A", "c", "m", "e">>

T_SnippetEngineer ==
    <<"a", " ", "s", "o", "f", "t", "w", "a", "r", "e", " ", "e", "n", "g", "i", "n", "e", "e",
      "r">>

T_QAIntern ==
    <<"Q", "A", " ", "I", "n", "t", "e", "r", "n">>

T_FrontendDeveloper ==
    <<"F", "r", "o", "n", "t", "e", "n", "d", " ", "D", "e", "v", "e", "l", "o", "p", "e", "r">>

T_UIUXDesigner ==
    <<"U", "I", "/", "U", "X", " ", "D", "e", "s", "i", "g", "n", "e", "r">>

T_SoftwareEngineer ==
    <<"S", "o", "f", "t", "w", "a", "r", "e", " ", "E", "n", "g", "i", "n", "e", "e", "r">>

T_DataAnalyst ==
    <<"D", "a", "t", "a", " ", "A", "n", "a", "l", "y", "s", "t">>

T_Software ==
    <<"S", "o", "f", "t", "w", "a", "r", "e">>

T_Developer ==
    <<"D", "e", "v", "e", "l", "o", "p", "e", "r">>

T_SnippetDesigner ==
    <<"u", "i", "/", "u", "x", " ", "d", "e", "s", "i", "g", "n", "e", "r">>

H_Job1 ==
    <<"h", "t", "t", "p", ":", "/", "/", "j", "/", "1">>

H_I1 ==
    <<"/", "i", "/", "1">>

G_JobsText ==
    <<"S", "o", "f", "t", "w", "a", "r", "e", " ", "E", "n", "g", "i", "n", "e", "e", "r", " ",
      "j", "o", "b", "s", " ", "-", " ", "h", "i", "r", "i", "n", "g", " ", "n", "o", "w">>

G_ShortText ==
    <<"S", "i", "g", "n", " ", "i", "n">>

G_PlainText ==
    <<"P", "r", "i", "v", "a", "c", "y", " ", "p", "o", "l", "i", "c", "y", " ", "a", "n", "d",
      " ", "t", "e", "r", "m", "s", " ", "o", "f", " ", "s", "e", "r", "v", "i", "c", "e">>
Card(title, company, location, snippet, href, text) ==
    [title |-> title, company |-> company, location |-> location,
     snippet |-> snippet, href |-> href, text |-> text]

\* The cards a page of each platform is made of.
Cards(platform) ==
    CASE platform = "naukri" ->
            { Card(None, None, None, T_SnippetEngineer, None, None) }
      [] platform = "internshala" ->
            { Card(T_QAIntern, T_Acme, None, None, H_I1, None),
              Card(T_FrontendDeveloper, T_Acme, None, None, H_I1, None) }
      [] platform = "indeed" ->
            { Card(None, None, None, T_SnippetDesigner, None, None),
              Card(T_SoftwareDeveloperRaw, T_Acme, None, None, H_Job1, None) }
      [] platform = "google" ->
            { Card(None, None, None, None, None, G_JobsText),
              Card(None, None, None, None, None, G_ShortText),
              Card(None, None, None, None, None, G_PlainText) }
      [] platform = "linkedin" ->
            { Card(T_Software, T_Developer, None, None, None, None),
              Card(T_UIUXDesigner, T_Acme, None, None, None, None),
              Card(T_DataAnalyst, T_Acme, None, None, H_Job1, None),
              Card(T_SoftwareEngineer, T_Acme, None, None, H_Job1, None) }

Pages(platform) ==
    UNION { [1..n -> Cards(platform)] : n \in 0..MaxPageLen }

DEFAULT_PORT ==
    <<"5", "8", "7">>

SMTP_HOST ==
    <<"s", "m", "t", "p", ".", "e", "x", "a", "m", "p", "l", "e", ".", "c", "o", "m">>

ADDR ==
    <<"m", "e", "@", "e", "x", "a", "m", "p", "l", "e", ".", "c", "o", "m">>

SECRET ==
    <<"p", "w">>
\* The SMTP settings of the environment, each unset (None), empty or set.
Configured ==
    [EMAIL_SMTP_SERVER |-> SMTP_HOST, EMAIL_SMTP_PORT |-> DEFAULT_PORT,
     EMAIL_USER |-> ADDR, EMAIL_PASS |-> SECRET, EMAIL_TO |-> ADDR]

Unconfigured ==
    [EMAIL_SMTP_SERVER |-> None, EMAIL_SMTP_PORT |-> None,
     EMAIL_USER |-> None, EMAIL_PASS |-> None, EMAIL_TO |-> None]

\* The environments of a run: every setting given, none given, the port
\* empty, the password unset.
Environments ==
    { Configured, Unconfigured,
      [Configured EXCEPT !.EMAIL_SMTP_PORT = <<>>],
      [Configured EXCEPT !.EMAIL_PASS = None] }

-----------------------------------------------------------------------------
\* State

VARIABLES
    pc,                \* where the run is
    pi,                \* index in PLATFORMS of the platform of the outer loop
    queries,           \* scrape_all's queries
    qi,                \* index in queries of the inner loop, 0 outside the loop
    issued,            \* the URLs page.goto was called with, for that platform
    last_outcome,      \* of the last iteration of the inner loop: "ok" or "error"
    platform_results,  \* scrape_all's platform_results
    dedup,             \* scrape_all's dedup
    results,           \* scrape_all's results, then jobs of the main block
    accepted_keys,     \* keys of parsed records that pass the main block's filter (within the cap)
    filtered,          \* the main block's filtered
    csv,               \* the lines of job_results.csv, <<>> while it does not exist
    env,               \* the SMTP settings send_email read
    email              \* "True" / "False": what send_email returned

vars ==
    <<pc, pi, queries, qi, issued, last_outcome, platform_results, dedup,
      results, accepted_keys, filtered, csv, env, email>>

scrape_locals ==
    <<queries, qi, issued, last_outcome, platform_results, dedup>>

main_vars ==
    <<filtered, csv, env, email>>

\* The identity key of lines 148 and 239.
Key(r) ==
    IF r.link # <<>> THEN r.link ELSE r.title \o <<"|">> \o r.company

\* The loop of lines 147-152.
RECURSIVE dedup_loop(_, _, _)
dedup_loop(rest, seen, out) ==
    IF rest = <<>> THEN out
    ELSE LET r == Head(rest)
             key == Key(r)
         IN  IF key \in seen
             THEN dedup_loop(Tail(rest), seen, out)
             ELSE dedup_loop(Tail(rest), seen \cup {key}, Append(out, r))

\* s[::-1]
Reverse(s) ==
    [i \in 1..Len(s) |-> s[Len(s) + 1 - i]]

\* The dedup pass keeping the last record of each key instead of the first.
DedupeKeepLast(records) ==
    Reverse(dedup_loop(Reverse(records), {}, <<>>))

\* Lines 145-152.
Dedupe(records) ==
    dedup_loop(records, {}, <<>>)

\* Line 233.
RECURSIVE lower_all(_)
lower_all(ks) ==
    IF ks = <<>> THEN <<>> ELSE <<lower(Head(ks))>> \o lower_all(Tail(ks))

k_lower ==
    lower_all(KEYWORDS)

\* The filter with .lower() left off the record's text.
AcceptsCaseSensitive(j) ==
    LET content == Join(<<" ">>, <<j.title, j.company, j.snippet>>)
    IN  \E i \in 1..Len(k_lower) : Contains(content, k_lower[i])

\* Lines 237-238: content and any(k in content for k in k_lower).
Accepts(j) ==
    LET content == lower(Join(<<" ">>, <<j.title, j.company, j.snippet>>))
    IN  \E i \in 1..Len(k_lower) : Contains(content, k_lower[i])

\* What the platform's parser returns, over the pages of the platform.
Parsed ==
    [p \in {"naukri", "internshala", "indeed", "google", "linkedin"} |->
        { ParsePage(p, html) : html \in Pages(p) }]

\* Every record a parser returns for some page.
Scrapable ==
    UNION { { page[i] : i \in 1..Len(page) } :
            page \in UNION { Parsed[p] : p \in DOMAIN Parsed } }

\* The records the main block's filter lets through.
Acceptable ==
    { r \in Scrapable : Accepts(r) }

\* The keys of the records of recs that pass the main block's filter.
AcceptedKeys(recs) ==
    { Key(recs[i]) : i \in { n \in 1..Len(recs) : recs[n] \in Acceptable } }

\* The keys of the records of a platform that pass the main block's filter,
\* those the slice of line 153 cuts off left out.
AcceptedWithinCap(collected, kept) ==
    AcceptedKeys(collected) \cap { Key(kept[i]) : i \in 1..Len(kept) }

\* The loop of lines 236-242.
RECURSIVE main_loop(_, _, _)
main_loop(rest, seen, out) ==
    IF rest = <<>> THEN out
    ELSE LET j == Head(rest)
             key == Key(j)
         IN  IF Accepts(j) /\ key \notin seen
             THEN main_loop(Tail(rest), seen \cup {key}, Append(out, j))
             ELSE main_loop(Tail(rest), seen, out)

\* The main block without its seen set: the filter alone.
FilterJobsNoDedup(jobs) ==
    SelectSeq(jobs, Accepts)

\* Lines 233-242.
FilterJobs(jobs) ==
    main_loop(jobs, {}, <<>>)

\* parse_internshala writing "link" before "snippet" in its dict literal.
DictKeysLinkFirst(r) ==
    IF r.source = "Internshala"
    THEN <<"title", "company", "location", "link", "snippet", "source">>
    ELSE <<"title", "company", "location", "snippet", "link", "source">>

\* The keys of a parser's dict literal, in the order it writes them
\* (lines 61, 73, 85, 97, 112).
DictKeys(r) ==
    CASE r.source = "Naukri" ->
            <<"title", "company", "location", "snippet", "link", "source">>
      [] r.source = "Internshala" ->
            <<"title", "company", "location", "snippet", "link", "source">>
      [] r.source = "Indeed" ->
            <<"title", "company", "location", "snippet", "link", "source">>
      [] r.source = "GoogleSearch" ->
            <<"title", "company", "location", "snippet", "link", "source">>
      [] r.source = "LinkedIn" ->
            <<"title", "company", "location", "snippet", "link", "source">>

\* pd.DataFrame(list of dicts).columns: the keys in order of first appearance.
RECURSIVE frame_columns(_, _)
frame_columns(rows, cols) ==
    IF rows = <<>> THEN cols
    ELSE LET new == SelectSeq(DictKeys(Head(rows)),
                              LAMBDA k : \A i \in 1..Len(cols) : cols[i] # k)
         IN  frame_columns(Tail(rows), cols \o new)

\* df.to_csv(fname, index=False): the header line, then one line per row.
to_csv(columns, rows) ==
    <<columns>> \o [i \in 1..Len(rows) |-> [c \in 1..Len(columns) |-> rows[i][columns[c]]]]

\* Lines 158-166: the file save_csv leaves behind.
save_csv(rows) ==
    IF rows = <<>>
    THEN to_csv(<<"title", "company", "location", "snippet", "link", "source">>, <<>>)
    ELSE to_csv(frame_columns(rows, <<>>), rows)

\* bool(v) of an environment value
Truthy(v) ==
    v # None /\ v # <<>>

\* Lines 188-226: "ValueError" when int() raises at line 190, else the value
\* returned.  exchange_ok: the SMTP exchange of lines 215-221 raises nothing.
send_email(e, exchange_ok) ==
    LET port_text == IF e.EMAIL_SMTP_PORT = None THEN DEFAULT_PORT ELSE e.EMAIL_SMTP_PORT
        smtp_port == int(port_text)
    IN  IF ~smtp_port.ok THEN "ValueError"
        ELSE IF ~(/\ Truthy(e.EMAIL_SMTP_SERVER) /\ Truthy(e.EMAIL_USER)
                  /\ Truthy(e.EMAIL_PASS) /\ Truthy(e.EMAIL_TO))
        THEN "False"
        ELSE IF exchange_ok THEN "True" ELSE "False"

Init ==
    /\ pc = "platform"
    /\ pi = 1
    /\ queries = <<>>
    /\ qi = 0
    /\ issued = <<>>
    /\ last_outcome = "none"
    /\ platform_results = <<>>
    /\ dedup = <<>>
    /\ results = <<>>
    /\ accepted_keys = {}
    /\ filtered = <<>>
    /\ csv = <<>>
    /\ env = Unconfigured
    /\ email = "none"

\* Top of "for platform in PLATFORMS" (lines 122-124).
StartPlatform ==
    /\ pc = "platform"
    /\ pi <= Len(PLATFORMS)
    /\ queries' = build_queries(KEYWORDS, PLATFORMS[pi])
    /\ platform_results' = <<>>
    /\ qi' = 1
    /\ issued' = <<>>
    /\ last_outcome' = "none"
    /\ pc' = IF queries' = <<>> THEN "dedup" ELSE "query"
    /\ UNCHANGED <<pi, dedup, results, accepted_keys>>
    /\ UNCHANGED main_vars

\* Bottom of one iteration of "for q in queries" (lines 142-143) and the
\* loop's own end.
NextQuery(collected) ==
    IF Len(collected) >= MAX_PER_PLATFORM \/ qi = Len(queries)
    THEN pc' = "dedup" /\ qi' = 0
    ELSE pc' = "query" /\ qi' = qi + 1

\* One iteration whose page loads and parses (lines 126-139, 142-143).
QueryOk ==
    /\ pc = "query"
    /\ \E parsed \in Parsed[PLATFORMS[pi]] :
          platform_results' = platform_results \o parsed
    /\ issued' = Append(issued, queries[qi])
    /\ last_outcome' = "ok"
    /\ NextQuery(platform_results')
    /\ UNCHANGED <<pi, queries, dedup, results, accepted_keys>>
    /\ UNCHANGED main_vars

\* The try/except wrapped around the whole inner loop instead of its body:
\* an exception ends the platform's loop.
QueryErrorEndsLoop ==
    /\ pc = "query"
    /\ issued' = Append(issued, queries[qi])
    /\ last_outcome' = "error"
    /\ pc' = "dedup"
    /\ qi' = 0
    /\ UNCHANGED <<pi, queries, platform_results, dedup, results, accepted_keys>>
    /\ UNCHANGED main_vars

\* One iteration in which page.goto, page.content or the parser raises
\* (lines 126-143): extend is never reached, the except clause prints.
QueryError ==
    /\ pc = "query"
    /\ issued' = Append(issued, queries[qi])
    /\ last_outcome' = "error"
    /\ NextQuery(platform_results)
    /\ UNCHANGED <<pi, queries, platform_results, dedup, results, accepted_keys>>
    /\ UNCHANGED main_vars

\* Line 153 as results.extend(dedup), without the slice.
DedupPlatformNoSlice ==
    /\ pc = "dedup"
    /\ dedup' = Dedupe(platform_results)
    /\ results' = results \o dedup'
    /\ accepted_keys' = accepted_keys \cup AcceptedWithinCap(platform_results, dedup')
    /\ pi' = pi + 1
    /\ pc' = "platform"
    /\ issued' = <<>>
    /\ last_outcome' = "none"
    /\ UNCHANGED <<queries, qi, platform_results>>
    /\ UNCHANGED main_vars

\* After the inner loop: dedupe, truncate, extend results (lines 144-153).
DedupPlatform ==
    /\ pc = "dedup"
    /\ dedup' = Dedupe(platform_results)
    /\ results' = results \o Take(dedup', MAX_PER_PLATFORM)
    /\ accepted_keys' = accepted_keys \cup
          AcceptedWithinCap(platform_results, Take(dedup', MAX_PER_PLATFORM))
    /\ pi' = pi + 1
    /\ pc' = "platform"
    /\ issued' = <<>>
    /\ last_outcome' = "none"
    /\ UNCHANGED <<queries, qi, platform_results>>
    /\ UNCHANGED main_vars

\* After the last platform: browser.close() and return results (lines
\* 154-155, 231); scrape_all's locals are gone.
ScrapeReturn ==
    /\ pc = "platform"
    /\ pi > Len(PLATFORMS)
    /\ queries' = <<>>
    /\ qi' = 0
    /\ issued' = <<>>
    /\ last_outcome' = "none"
    /\ platform_results' = <<>>
    /\ dedup' = <<>>
    /\ pc' = "main"
    /\ UNCHANGED <<pi, results, accepted_keys>>
    /\ UNCHANGED main_vars

\* Lines 232-242.
FilterMain ==
    /\ pc = "main"
    /\ filtered' = FilterJobs(results)
    /\ pc' = "save"
    /\ UNCHANGED <<pi, results, accepted_keys, csv, env, email>>
    /\ UNCHANGED scrape_locals

\* Line 244.
SaveCsv ==
    /\ pc = "save"
    /\ csv' = save_csv(filtered)
    /\ pc' = "email"
    /\ UNCHANGED <<pi, results, accepted_keys, filtered, env, email>>
    /\ UNCHANGED scrape_locals

\* Lines 245-247: make_html, send_email, and the final print when
\* send_email returns; an exception out of send_email ends the run.
SendEmail ==
    /\ pc = "email"
    /\ \E e \in Environments, exchange_ok \in BOOLEAN :
          LET r == send_email(e, exchange_ok)
          IN  /\ env' = e
              /\ IF r = "ValueError"
                 THEN pc' = "crashed" /\ email' = email
                 ELSE pc' = "done" /\ email' = r
    /\ UNCHANGED <<pi, results, accepted_keys, filtered, csv>>
    /\ UNCHANGED scrape_locals

Next ==
    \/ StartPlatform
    \/ QueryOk
    \/ QueryError
    \/ DedupPlatform
    \/ ScrapeReturn
    \/ FilterMain
    \/ SaveCsv
    \/ SendEmail

Spec ==
    Init /\ [][Next]_vars

-----------------------------------------------------------------------------
\* Properties

\* The main block has run its loop: filtered is the final accepted set.
Filtered ==
    pc \in {"save", "email", "done", "crashed"}

\* save_csv has returned.
Saved ==
    pc \in {"email", "done", "crashed"}

\* The records of a sequence the main block's filter lets through.
AcceptedOf(records) ==
    SelectSeq(records, LAMBDA r : r \in Acceptable)

\* The identity key as the specification words it: the link if it is not
\* empty, else title + "|" + company.
IdentityKey(r) ==
    IF Len(r.link) > 0 THEN r.link ELSE r.title \o <<"|">> \o r.company

\* The positions of input whose key no earlier position carries.
FirstOccurrences(input) ==
    { i \in 1..Len(input) :
        \A j \in 1..(i - 1) : IdentityKey(input[j]) # IdentityKey(input[i]) }

\* output is input restricted to the first occurrence of each key, in input's order.
IsFirstSeenDedup(input, output) ==
    LET first == FirstOccurrences(input)
        nth(k) == CHOOSE i \in first : Cardinality({ j \in first : j <= i }) = k
    IN  /\ Len(output) = Cardinality(first)
        /\ \A k \in 1..Len(output) : output[k] = input[nth(k)]

\* C1: each dedup pass (the per-platform pass of scrape_all over
\* platform_results, the main block's pass over the records that pass the
\* filter) returns its input restricted to the first record of each identity
\* key, in input order.
C1_DedupFirstSeen ==
    /\ pc = "platform" => IsFirstSeenDedup(platform_results, dedup)
    /\ Filtered => IsFirstSeenDedup(AcceptedOf(results), filtered)

\* C1 witness: the per-platform pass has seen [A(k1), B(k2), C(k1)] with
\* A # C and returned [A, B].
C1_Witness ==
    /\ pc = "platform"
    /\ Len(platform_results) = 3
    /\ IdentityKey(platform_results[1]) = IdentityKey(platform_results[3])
    /\ IdentityKey(platform_results[1]) # IdentityKey(platform_results[2])
    /\ platform_results[1] # platform_results[3]
    /\ dedup = <<platform_results[1], platform_results[2]>>

\* A record with an empty link, an empty title and an empty company.
EmptyIdentity(r) ==
    r.link = <<>> /\ r.title = <<>> /\ r.company = <<>>

EmptyCount(records) ==
    Cardinality({ i \in 1..Len(records) : EmptyIdentity(records[i]) })

\* C2: a dedup pass retains every record whose link, title and company are
\* all empty.
C2_EmptyKeyPassthrough ==
    /\ pc = "platform" => EmptyCount(dedup) = EmptyCount(platform_results)
    /\ Filtered => EmptyCount(filtered) = EmptyCount(AcceptedOf(results))

\* C3: whenever a parsed record with key k passes the acceptance filter (and
\* k is not one the per-platform cap cut off), the final set holds a record
\* with key k.
C3_AcceptedKeySurvives ==
    Filtered =>
        \A k \in accepted_keys : \E i \in 1..Len(filtered) : IdentityKey(filtered[i]) = k

\* C4: an iteration that raises adds no record, leaves platform_results and
\* results as they were, and the loop goes on with the platform's next query
\* (or, after its last query, with the platform's dedup and the platforms
\* that follow); the run is not aborted.
C4_FailureIsolation ==
    [][ (pc = "query" /\ last_outcome' = "error") =>
            /\ platform_results' = platform_results
            /\ results' = results
            /\ pi' = pi
            /\ IF qi < Len(queries)
               THEN pc' = "query" /\ qi' = qi + 1
               ELSE pc' = "dedup" ]_vars

\* C4 witness: a query after the first has just failed, the records of the
\* earlier queries are still there and the loop is at the next query.
C4_Witness ==
    /\ pc = "query"
    /\ last_outcome = "error"
    /\ qi > 2
    /\ Len(platform_results) > 0
    /\ Len(results) > 0

\* C5: the final set holds no two records with the same identity key, and
\* each key of an accepted record of scrape_all's result exactly once; the
\* CSV has one line for each of them.
C5_GlobalUniqueness ==
    /\ Filtered =>
          /\ \A i, j \in 1..Len(filtered) :
                i # j => IdentityKey(filtered[i]) # IdentityKey(filtered[j])
          /\ \A n \in 1..Len(results) :
                results[n] \in Acceptable =>
                    Cardinality({ i \in 1..Len(filtered) :
                                    IdentityKey(filtered[i]) = IdentityKey(results[n]) }) = 1
    /\ Saved => Len(csv) = Len(filtered) + 1

\* C5 witness: two platforms produced accepted records with the same
\* non-empty link, and the final set holds that link once.
C5_Witness ==
    /\ pc = "done"
    /\ \E m, n \in 1..Len(results) :
          /\ results[m].source # results[n].source
          /\ results[m].link # <<>>
          /\ results[m].link = results[n].link
          /\ results[m] \in Acceptable /\ results[n] \in Acceptable
          /\ Cardinality({ i \in 1..Len(filtered) : filtered[i].link = results[m].link }) = 1

\* One URL for each keyword, in KEYWORDS order, for the platform of the outer loop.
PlannedQueries ==
    [i \in 1..Len(KEYWORDS) |-> QueryUrl(KEYWORDS[i], PLATFORMS[pi])]

\* The URLs of all (keyword, platform) pairs are pairwise different.
PlanDistinct ==
    \A p1, p2 \in 1..Len(PLATFORMS) : \A k1, k2 \in 1..Len(KEYWORDS) :
        <<p1, k1>> # <<p2, k2>> =>
            QueryUrl(KEYWORDS[k1], PLATFORMS[p1]) # QueryUrl(KEYWORDS[k2], PLATFORMS[p2])

C7_CsvHeader ==
    Saved =>
        /\ Len(csv) >= 1
        /\ csv[1] = <<"title", "company", "location", "snippet", "link", "source">>

\* C7 witness: save_csv has written the file of an empty accepted set
\* although records were scraped.
C7_Witness ==
    /\ pc = "done"
    /\ filtered = <<>>
    /\ results # <<>>
    /\ Len(csv) = 1

\* One of the five SMTP settings is unset or empty.
SettingsMissing(e) ==
    \E k \in DOMAIN e : e[k] = None \/ e[k] = <<>>

\* C8: the CSV exists when the email is attempted; with an SMTP setting
\* missing send_email returns False, the CSV stays as written and the run
\* reaches its final print.
C8_NotificationNeverFails ==
    /\ pc = "email" => csv = save_csv(filtered)
    /\ (pc \in {"done", "crashed"} /\ SettingsMissing(env)) =>
          /\ pc = "done"
          /\ email = "False"
          /\ csv = save_csv(filtered)

\* The records of results the parser of one platform produced.
FromSource(source) ==
    { i \in 1..Len(results) : results[i].source = source }

\* C9: one parsed page adds at most MAX_PER_PLATFORM records, each platform
\* contributes at most MAX_PER_PLATFORM records to results, and results
\* never holds more than |PLATFORMS| * MAX_PER_PLATFORM records.
C9_BoundedOutput ==
    /\ [] /\ Len(results) <= (pi - 1) * MAX_PER_PLATFORM
          /\ Len(results) <= Len(PLATFORMS) * MAX_PER_PLATFORM
          /\ \A s \in {"Naukri", "Internshala", "Indeed", "GoogleSearch", "LinkedIn"} :
                Cardinality(FromSource(s)) <= MAX_PER_PLATFORM
    /\ [][ (pc = "query" /\ last_outcome' = "ok") =>
                Len(platform_results') <= Len(platform_results) + MAX_PER_PLATFORM ]_vars

\* C9 witness: a platform's dedup held more than MAX_PER_PLATFORM records
\* and results took MAX_PER_PLATFORM of them.
C9_Witness ==
    /\ pc = "platform"
    /\ Len(dedup) > MAX_PER_PLATFORM
    /\ Len(results) >= MAX_PER_PLATFORM
    /\ SubSeq(results, Len(results) - MAX_PER_PLATFORM + 1, Len(results))
          = SubSeq(dedup, 1, MAX_PER_PLATFORM)

\* keyword, lower-cased, occurs in text, lower-cased, at offset.
MatchesAt(text, keyword, offset) ==
    /\ offset + Len(keyword) <= Len(text)
    /\ \A n \in 1..Len(keyword) : LowerChar(text[offset + n]) = LowerChar(keyword[n])

\* Some keyword occurs in text, case ignored.
KeywordIn(text) ==
    \E k \in 1..Len(KEYWORDS) : \E offset \in 0..Len(text) :
        MatchesAt(text, KEYWORDS[k], offset)

\* The filter over title, company and snippet written one after the other.
KeywordInConcatenation(r) ==
    KeywordIn(r.title \o r.company \o r.snippet)

\* The filter over title, company and snippet joined by single spaces.
KeywordInJoinedText(r) ==
    KeywordIn(r.title \o <<" ">> \o r.company \o <<" ">> \o r.snippet)

\* The records that have a keyword in title, company and snippet written
\* one after the other.
MatchConcatenated ==
    { r \in Scrapable : KeywordInConcatenation(r) }

\* The records that have a keyword in title, company and snippet joined by
\* single spaces.
MatchJoined ==
    { r \in Scrapable : KeywordInJoinedText(r) }

\* C10 as stated: every record of the final set has a lower-cased keyword in
\* the lower-cased concatenation of its title, company and snippet, and the
\* final set is the records of scrape_all's result that have one, the first
\* of each identity key only, in order and unmodified.
C10_ConcatenationFilter ==
    Filtered =>
        /\ \A n \in 1..Len(results) : results[n] \in Scrapable
        /\ \A i \in 1..Len(filtered) : filtered[i] \in MatchConcatenated
        /\ IsFirstSeenDedup(SelectSeq(results, LAMBDA r : r \in MatchConcatenated), filtered)

\* C10 amended: the text the filter searches is title, company and snippet
\* joined by single spaces; every record of the final set has a lower-cased
\* keyword in that text, lower-cased, and the final set is the records of
\* scrape_all's result that have one, the first of each identity key only,
\* in order and unmodified.
C10_JoinedTextFilter ==
    Filtered =>
        /\ \A n \in 1..Len(results) : results[n] \in Scrapable
        /\ \A i \in 1..Len(filtered) : filtered[i] \in MatchJoined
        /\ IsFirstSeenDedup(SelectSeq(results, LAMBDA r : r \in MatchJoined), filtered)

\* C10 witness: the final set is not empty, a scraped record was rejected,
\* an accepted one was dropped as a duplicate, one record passed on a
\* keyword written in another case and one on a keyword that spans the
\* space between title and company.
C10_Witness ==
    /\ pc = "done"
    /\ \E n \in 1..Len(results) : results[n] \notin MatchJoined
    /\ Len(SelectSeq(results, LAMBDA r : r \in MatchJoined)) > Len(filtered)
    /\ \E i \in 1..Len(filtered) : ~AcceptsCaseSensitive(filtered[i])
    /\ \E i \in 1..Len(filtered) : filtered[i] \notin MatchConcatenated

====
